---- MODULE Spec2Model ----
(***************************************************************************)
(* A model of src/src/data_collection/synthetic_data_generator.py, the     *)
(* class MicroMobilityDataGenerator: the station registry built by the     *)
(* constructor, the factor model, generate_trip_data, generate_weather_data*)
(* and generate_events_data.                                               *)
(*                                                                         *)
(* Numbers.  A timestamp is the number of hours since 2024-01-01 00:00 (a  *)
(* Monday); a date string such as '2024-01-01' is the timestamp of its     *)
(* midnight, as pandas parses it.  The float factors are kept exactly as   *)
(* scaled integers: base demand in 1/100, weather factor in 1/1000,        *)
(* seasonal and event factor in 1/10, temperatures and precipitation in    *)
(* 1/100 (recorded values, rounded to one decimal, stay in 1/100).         *)
(*                                                                         *)
(* Randomness.  Each call of random.* / np.random.* is a choice (\E) from  *)
(* a small set of outcomes that contains the extremes of its range and the *)
(* values next to the thresholds the code compares against.                *)
(*                                                                         *)
(* Fields of the rows that no operation of the class reads back and that   *)
(* are plain copies or independent draws (latitude, longitude, humidity,   *)
(* wind_speed, aqi, event_name, expected_attendance) are left out.         *)
(***************************************************************************)
EXTENDS Integers, Sequences, FiniteSets, TLC

VARIABLES
    num_stations,       \* self.num_stations
    start_date,         \* self.start_date (timestamp of the string given)
    end_date,           \* self.end_date
    station_locations,  \* self.station_locations
    pc,                 \* position of the running call
    err,                \* the exception that ended the call, or "none"
    ti,                 \* generate_trip_data: index into date_range of `timestamp`
    si,                 \* generate_trip_data: index of the next station of the inner loop
    processed,          \* generate_trip_data: processed
    total_records,      \* generate_trip_data: total_records
    weather_factor,     \* generate_trip_data: weather_factor
    seasonal_factor,    \* generate_trip_data: seasonal_factor
    event_factor,       \* generate_trip_data: event_factor
    factor_calls,       \* number of calls of _get_weather_factor / _get_event_factor made
    trips,              \* generate_trip_data: trips; afterwards the trip table returned
    temp,               \* generate_weather_data: temp (sampled, unrounded)
    precipitation,      \* generate_weather_data: precipitation (sampled, unrounded)
    weather_data,       \* generate_weather_data: weather_data
    unique_dates,       \* generate_events_data: unique_dates
    di,                 \* generate_events_data: index of the next date of the loop
    events_data,        \* generate_events_data: events_data
    hour,               \* _calculate_base_demand: hour
    day_of_week,        \* _calculate_base_demand: day_of_week
    area_type,          \* _calculate_base_demand: area_type
    base_result         \* _calculate_base_demand: value returned, in 1/100

vars == << num_stations, start_date, end_date, station_locations, pc, err, ti, si,
           processed, total_records, weather_factor, seasonal_factor, event_factor,
           factor_calls, trips, temp, precipitation, weather_data, unique_dates, di,
           events_data, hour, day_of_week, area_type, base_result >>

----------------------------------------------------------------------------
(* Bounds of the model *)

\* largest num_stations
MaxStations == 3
\* largest end_date - start_date, in hours
MaxSpan == 1
\* largest number of rows of a trip table: num_stations * len(date_range)
MaxRows == 4

----------------------------------------------------------------------------
(* Calendar of 2024: the attributes of a pandas Timestamp *)

DaysInMonth == << 31, 29, 31, 30, 31, 30, 31, 31, 30, 31, 30, 31 >>

RECURSIVE DaysBefore(_)
DaysBefore(m) == IF m <= 1 THEN 0 ELSE DaysBefore(m - 1) + DaysInMonth[m - 1]

\* the timestamp of month m, day d, hour h
Timestamp(m, d, h) == (DaysBefore(m) + d - 1) * 24 + h

\* timestamp.hour
HourOf(t) == t % 24
\* timestamp.date(), as a day number
DateOf(t) == t \div 24
\* timestamp.weekday(): Monday is 0; 2024-01-01 is a Monday
WeekdayOf(t) == DateOf(t) % 7
\* timestamp.month
MonthOf(t) == CHOOSE m \in 1..12 :
                 /\ DaysBefore(m) <= DateOf(t)
                 /\ DateOf(t) < DaysBefore(m) + DaysInMonth[m]
\* timestamp.day
DayOf(t) == DateOf(t) - DaysBefore(MonthOf(t)) + 1

Max(a, b) == IF a >= b THEN a ELSE b

----------------------------------------------------------------------------
(* Station registry *)

major_areas == <<
    [name |-> "Connaught Place",  type |-> "business_district"],
    [name |-> "India Gate",       type |-> "tourist"],
    [name |-> "Red Fort",         type |-> "tourist"],
    [name |-> "Karol Bagh",       type |-> "business_district"],
    [name |-> "Lajpat Nagar",     type |-> "residential"],
    [name |-> "Dwarka",           type |-> "residential"],
    [name |-> "Gurgaon Border",   type |-> "transport_hub"],
    [name |-> "Delhi University", type |-> "educational"],
    [name |-> "JNU",              type |-> "educational"],
    [name |-> "Chandni Chowk",    type |-> "business_district"] >>

\* the station appended with its identifier counted from 1
StationIdFromOne(i, base_area) ==
    [station_id |-> i + 1,
     name       |-> << "Station", i, base_area.name >>,
     area_type  |-> base_area.type,
     base_area  |-> base_area.name]

\* the station appended for index i when random.choice picks base_area
Station(i, base_area) ==
    [station_id |-> i,
     name       |-> << "Station", i, base_area.name >>,
     area_type  |-> base_area.type,
     base_area  |-> base_area.name]

base_patterns ==
    [a \in {"business_district", "residential", "tourist", "transport_hub", "educational"} |->
        CASE a = "business_district" -> [peak_hours |-> {8, 9, 17, 18},        base_demand |-> 25]
          [] a = "residential"       -> [peak_hours |-> {7, 8, 18, 19},        base_demand |-> 15]
          [] a = "tourist"           -> [peak_hours |-> {10, 11, 14, 15},      base_demand |-> 20]
          [] a = "transport_hub"     -> [peak_hours |-> {6, 7, 8, 17, 18, 19}, base_demand |-> 30]
          [] a = "educational"       -> [peak_hours |-> {8, 9, 16, 17},        base_demand |-> 18]]

----------------------------------------------------------------------------
(* Factor model *)

\* _calculate_base_demand with the night test ahead of the adjacency test
BaseDemandNightFirst(h, dow, a) ==
    LET pattern == base_patterns[a]
        base == pattern.base_demand
        m1 == IF h \in pattern.peak_hours THEN 15
              ELSE IF ~(6 <= h /\ h <= 22) THEN 3
              ELSE IF \/ h \in {p + 1 : p \in pattern.peak_hours}
                      \/ h \in {p - 1 : p \in pattern.peak_hours} THEN 12
              ELSE 10
        m2 == IF dow >= 5
              THEN IF a \in {"business_district", "educational"} THEN m1 * 6
                   ELSE IF a = "tourist" THEN m1 * 13
                   ELSE m1 * 10
              ELSE m1 * 10
    IN base * m2

\* _calculate_base_demand: base * multiplier, in 1/100
CalculateBaseDemand(h, dow, a) ==
    LET pattern == base_patterns[a]
        base == pattern.base_demand
        \* peak hour multiplier, in 1/10
        m1 == IF h \in pattern.peak_hours THEN 15
              ELSE IF \/ h \in {p + 1 : p \in pattern.peak_hours}
                      \/ h \in {p - 1 : p \in pattern.peak_hours} THEN 12
              ELSE IF 6 <= h /\ h <= 22 THEN 10
              ELSE 3
        \* weekend adjustment: multiplier in 1/100
        m2 == IF dow >= 5
              THEN IF a \in {"business_district", "educational"} THEN m1 * 6
                   ELSE IF a = "tourist" THEN m1 * 13
                   ELSE m1 * 10
              ELSE m1 * 10
    IN base * m2

\* the outcomes of `random.random() < rain_chance`
RainDraws == BOOLEAN

\* _get_weather_factor, in 1/1000, when the rain draw (made in the monsoon only) is rain
GetWeatherFactor(t, rain) ==
    LET month == MonthOf(t)
        temp_factor == IF month \in {5, 6, 7} THEN 7
                       ELSE IF month \in {12, 1, 2} THEN 8
                       ELSE 10
        rain_factor == IF month \in {7, 8, 9}
                       THEN IF rain THEN 4 ELSE 10
                       ELSE 10
        aqi_factor == IF month \in {10, 11, 12, 1} THEN 9 ELSE 10
    IN temp_factor * rain_factor * aqi_factor

\* the rain draws _get_weather_factor makes at t: none outside the monsoon
WeatherDraws(t) == IF MonthOf(t) \in {7, 8, 9} THEN RainDraws ELSE {FALSE}

\* _get_seasonal_factor, in 1/10
GetSeasonalFactor(t) ==
    LET month == MonthOf(t)
    IN IF month \in {10, 11, 3, 4} THEN 12
       ELSE IF month \in {5, 6} THEN 8
       ELSE IF month \in {7, 8} THEN 9
       ELSE 10

\* the values _get_event_factor returns, in 1/10: 1.0, or uniform(1.2, 1.8)
EventFactors == {10, 12, 18}

\* _is_holiday
IsHoliday(t) == << MonthOf(t), DayOf(t) >> \in { <<1, 26>>, <<8, 15>>, <<10, 2>>, <<12, 25>> }

----------------------------------------------------------------------------
(* generate_trip_data *)

\* pd.date_range(start, end, freq='H') without its last timestamp
DateRangeOpenEnd(start, end) == [k \in 1..Max(0, end - start) |-> start + k - 1]

\* pd.date_range(start, end, freq='H') with the ends put in order first
DateRangeSorted(start, end) ==
    LET lo == IF start <= end THEN start ELSE end
        hi == IF start <= end THEN end ELSE start
    IN [k \in 1..(hi - lo + 1) |-> lo + k - 1]

\* pd.date_range(start, end, freq='H'): start, start + 1h, ... while <= end
DateRange(start, end) == [k \in 1..Max(0, end - start + 1) |-> start + k - 1]

\* the outcomes of np.random.poisson(lam) the model draws
PoissonDraws == {0, 1}

\* final_demand = base_demand * weather_factor * seasonal_factor * event_factor, in 1/10^7
FinalDemand(base_demand, wf, sf, ef) == base_demand * wf * sf * ef

\* np.random.poisson(final_demand): only 0 when the mean is 0
PoissonSamples(final_demand) == IF final_demand = 0 THEN {0} ELSE PoissonDraws

\* the sample with noise taken off and no clamp
TripCountNoClamp(sample) == sample - 1

\* max(0, int(sample))
TripCount(sample) == Max(0, sample)

\* the row appended for timestamp t and station st
TripRow(t, st, sample, wf, sf, ef) ==
    [timestamp       |-> t,
     station_id      |-> st.station_id,
     station_name    |-> st.name,
     area_type       |-> st.area_type,
     trip_count      |-> TripCount(sample),
     hour            |-> HourOf(t),
     day_of_week     |-> WeekdayOf(t),
     month           |-> MonthOf(t),
     is_weekend      |-> WeekdayOf(t) >= 5,
     is_holiday      |-> IsHoliday(t),
     weather_factor  |-> wf,
     seasonal_factor |-> sf,
     event_factor    |-> ef]

\* generate_trip_data()
CallGenerateTripData ==
    /\ pc = "constructed"
    /\ pc' = "trips_timestamp"
    /\ trips' = << >>
    /\ total_records' = Len(DateRange(start_date, end_date)) * num_stations
    /\ processed' = 0
    /\ ti' = 1
    /\ UNCHANGED << num_stations, start_date, end_date, station_locations, err, si,
                    weather_factor, seasonal_factor, event_factor, factor_calls,
                    temp, precipitation, weather_data, unique_dates, di, events_data,
                    hour, day_of_week, area_type, base_result >>

\* `for timestamp in date_range:` up to the station loop
TripsTimestamp ==
    /\ pc = "trips_timestamp"
    /\ ti <= Len(DateRange(start_date, end_date))
    /\ LET timestamp == DateRange(start_date, end_date)[ti]
       IN IF processed % 10000 = 0 /\ total_records = 0
          THEN \* progress = (processed / total_records) * 100
               /\ pc' = "raised"
               /\ err' = "ZeroDivisionError"
               /\ UNCHANGED << weather_factor, seasonal_factor, event_factor,
                               factor_calls, si, ti >>
          ELSE /\ \E rain \in WeatherDraws(timestamp) :
                     weather_factor' = GetWeatherFactor(timestamp, rain)
               /\ seasonal_factor' = GetSeasonalFactor(timestamp)
               /\ \E ef \in EventFactors : event_factor' = ef
               /\ factor_calls' = factor_calls + 1
               /\ IF Len(station_locations) = 0
                  THEN /\ pc' = "trips_timestamp"
                       /\ ti' = ti + 1
                       /\ si' = si
                  ELSE /\ pc' = "trips_station"
                       /\ si' = 1
                       /\ ti' = ti
               /\ err' = err
    /\ UNCHANGED << num_stations, start_date, end_date, station_locations, processed,
                    total_records, trips, temp, precipitation, weather_data,
                    unique_dates, di, events_data, hour, day_of_week, area_type,
                    base_result >>

\* the station loop with the factors drawn again for every station
TripsStationRedraw ==
    /\ pc = "trips_station"
    /\ LET timestamp == DateRange(start_date, end_date)[ti]
           station_info == station_locations[si]
           base_demand == CalculateBaseDemand(HourOf(timestamp), WeekdayOf(timestamp),
                                              station_info.area_type)
       IN \E rain \in WeatherDraws(timestamp), ef \in EventFactors :
            LET wf == GetWeatherFactor(timestamp, rain)
            IN \E sample \in PoissonSamples(FinalDemand(base_demand, wf, seasonal_factor, ef)) :
                 /\ trips' = Append(trips, TripRow(timestamp, station_info, sample, wf,
                                                   seasonal_factor, ef))
                 /\ weather_factor' = wf
                 /\ event_factor' = ef
    /\ processed' = processed + 1
    /\ factor_calls' = factor_calls + 1
    /\ IF si < Len(station_locations)
       THEN /\ si' = si + 1
            /\ UNCHANGED << pc, ti >>
       ELSE /\ pc' = "trips_timestamp"
            /\ ti' = ti + 1
            /\ si' = si
    /\ UNCHANGED << num_stations, start_date, end_date, station_locations, err,
                    total_records, seasonal_factor, temp, precipitation, weather_data,
                    unique_dates, di, events_data, hour, day_of_week, area_type,
                    base_result >>

\* `for station_info in self.station_locations:` one iteration
TripsStation ==
    /\ pc = "trips_station"
    /\ LET timestamp == DateRange(start_date, end_date)[ti]
           station_info == station_locations[si]
           base_demand == CalculateBaseDemand(HourOf(timestamp), WeekdayOf(timestamp),
                                              station_info.area_type)
           final_demand == FinalDemand(base_demand, weather_factor, seasonal_factor,
                                       event_factor)
       IN \E sample \in PoissonSamples(final_demand) :
            trips' = Append(trips, TripRow(timestamp, station_info, sample, weather_factor,
                                           seasonal_factor, event_factor))
    /\ processed' = processed + 1
    /\ IF si < Len(station_locations)
       THEN /\ si' = si + 1
            /\ UNCHANGED << pc, ti >>
       ELSE /\ pc' = "trips_timestamp"
            /\ ti' = ti + 1
            /\ si' = si
    /\ UNCHANGED << num_stations, start_date, end_date, station_locations, err,
                    total_records, weather_factor, seasonal_factor, event_factor,
                    factor_calls, temp, precipitation, weather_data, unique_dates, di,
                    events_data, hour, day_of_week, area_type, base_result >>

\* `return pd.DataFrame(trips)`
TripsReturn ==
    /\ pc = "trips_timestamp"
    /\ ti > Len(DateRange(start_date, end_date))
    /\ pc' = "trips_returned"
    /\ UNCHANGED << num_stations, start_date, end_date, station_locations, err, ti, si,
                    processed, total_records, weather_factor, seasonal_factor,
                    event_factor, factor_calls, trips, temp, precipitation,
                    weather_data, unique_dates, di, events_data, hour, day_of_week,
                    area_type, base_result >>

----------------------------------------------------------------------------
(* Constructor: _generate_station_locations *)

\* `for i in range(self.num_stations):` one iteration
GenerateStation ==
    /\ pc = "init"
    /\ Len(station_locations) < num_stations
    /\ \E a \in 1..Len(major_areas) :
         station_locations' =
             Append(station_locations, Station(Len(station_locations), major_areas[a]))
    /\ UNCHANGED << num_stations, start_date, end_date, pc, err, ti, si, processed,
                    total_records, weather_factor, seasonal_factor, event_factor,
                    factor_calls, trips, temp, precipitation, weather_data,
                    unique_dates, di, events_data, hour, day_of_week, area_type,
                    base_result >>

\* `return locations` and the end of __init__
ConstructorReturn ==
    /\ pc = "init"
    /\ Len(station_locations) >= num_stations
    /\ pc' = "constructed"
    /\ UNCHANGED << num_stations, start_date, end_date, station_locations, err, ti, si,
                    processed, total_records, weather_factor, seasonal_factor,
                    event_factor, factor_calls, trips, temp, precipitation,
                    weather_data, unique_dates, di, events_data, hour, day_of_week,
                    area_type, base_result >>

----------------------------------------------------------------------------
(* generate_weather_data *)

\* round(x, 1) of a value in 1/100: to the nearest tenth, an exact tie to the even one
Round1(x) ==
    LET q == x \div 10
        r == x % 10
    IN IF r < 5 THEN q * 10
       ELSE IF r > 5 THEN (q + 1) * 10
       ELSE IF q % 2 = 0 THEN q * 10 ELSE (q + 1) * 10

\* the outcomes of random.uniform for temp, by month; none is a tie of round(x, 1)
TempDraws(month) ==
    IF month \in {5, 6, 7} THEN {3500, 3504, 4500}
    ELSE IF month \in {12, 1, 2} THEN {800, 1496, 2000}
    ELSE {2000, 2750, 3500}

\* the outcomes of the precipitation draw, by month: 0 when the first draw fails
PrecipitationDraws(month) ==
    IF month \in {7, 8, 9} THEN {0, 504, 2000}
    ELSE {0, 200}

\* _get_weather_condition with the temperature looked at first
GetWeatherConditionTempFirst(t, p) ==
    IF t > 3500 THEN "hot"
    ELSE IF t < 1500 THEN "cold"
    ELSE IF p > 500 THEN "rainy"
    ELSE "pleasant"

\* _get_weather_condition
GetWeatherCondition(t, p) ==
    IF p > 500 THEN "rainy"
    ELSE IF t > 3500 THEN "hot"
    ELSE IF t < 1500 THEN "cold"
    ELSE "pleasant"

\* generate_weather_data(trip_data)
CallGenerateWeatherData ==
    /\ pc = "trips_returned"
    /\ pc' = "weather_loop"
    /\ weather_data' = << >>
    /\ UNCHANGED << num_stations, start_date, end_date, station_locations, err, ti, si,
                    processed, total_records, weather_factor, seasonal_factor,
                    event_factor, factor_calls, trips, temp, precipitation,
                    unique_dates, di, events_data, hour, day_of_week, area_type,
                    base_result >>

\* `for _, row in trip_data.iterrows():` one iteration
WeatherRow ==
    /\ pc = "weather_loop"
    /\ Len(weather_data) < Len(trips)
    /\ LET row == trips[Len(weather_data) + 1]
           timestamp == row.timestamp
           month == MonthOf(timestamp)
       IN \E t \in TempDraws(month), p \in PrecipitationDraws(month) :
            /\ temp' = t
            /\ precipitation' = p
            /\ weather_data' = Append(weather_data,
                   [timestamp         |-> timestamp,
                    temperature       |-> Round1(t),
                    precipitation     |-> Round1(p),
                    weather_condition |-> GetWeatherCondition(t, p)])
    /\ UNCHANGED << num_stations, start_date, end_date, station_locations, pc, err, ti,
                    si, processed, total_records, weather_factor, seasonal_factor,
                    event_factor, factor_calls, trips, unique_dates, di, events_data,
                    hour, day_of_week, area_type, base_result >>

\* `return pd.DataFrame(weather_data)`
WeatherReturn ==
    /\ pc = "weather_loop"
    /\ Len(weather_data) >= Len(trips)
    /\ pc' = "weather_returned"
    /\ UNCHANGED << num_stations, start_date, end_date, station_locations, err, ti, si,
                    processed, total_records, weather_factor, seasonal_factor,
                    event_factor, factor_calls, trips, temp, precipitation,
                    weather_data, unique_dates, di, events_data, hour, day_of_week,
                    area_type, base_result >>

----------------------------------------------------------------------------
(* generate_events_data *)

\* the dates of all rows, one entry per row
AllDates(rows) == [k \in 1..Len(rows) |-> DateOf(rows[k].timestamp)]

RECURSIVE Unique(_)
\* Series.unique(): the distinct values in the order of their first appearance
Unique(seq) ==
    IF seq = << >> THEN << >>
    ELSE LET front == Unique(SubSeq(seq, 1, Len(seq) - 1))
             last == seq[Len(seq)]
         IN IF \E k \in 1..Len(front) : front[k] = last
            THEN front
            ELSE Append(front, last)

\* trip_data['timestamp'].dt.date without unique()
DatesNotDeduplicated(rows) == AllDates(rows)

\* trip_data['timestamp'].dt.date.unique()
UniqueDates(rows) == Unique(AllDates(rows))

event_types == {"concert", "festival", "sports", "conference", "exhibition"}

\* generate_events_data(trip_data)
CallGenerateEventsData ==
    /\ pc = "trips_returned"
    /\ IF trips = << >>
       THEN \* pd.DataFrame([]) has no column 'timestamp'
            /\ pc' = "raised"
            /\ err' = "KeyError"
            /\ UNCHANGED << unique_dates, di, events_data >>
       ELSE /\ pc' = "events_loop"
            /\ events_data' = << >>
            /\ unique_dates' = UniqueDates(trips)
            /\ di' = 1
            /\ err' = err
    /\ UNCHANGED << num_stations, start_date, end_date, station_locations, ti, si,
                    processed, total_records, weather_factor, seasonal_factor,
                    event_factor, factor_calls, trips, temp, precipitation,
                    weather_data, hour, day_of_week, area_type, base_result >>

\* `for date in unique_dates:` one iteration
EventsDate ==
    /\ pc = "events_loop"
    /\ di <= Len(unique_dates)
    /\ \/ \* random.random() < 0.1
          \E type \in event_types, loc \in 1..Len(station_locations) :
             events_data' = Append(events_data,
                 [date       |-> unique_dates[di],
                  event_type |-> type,
                  location   |-> station_locations[loc].base_area])
       \/ events_data' = events_data
    /\ di' = di + 1
    /\ UNCHANGED << num_stations, start_date, end_date, station_locations, pc, err, ti,
                    si, processed, total_records, weather_factor, seasonal_factor,
                    event_factor, factor_calls, trips, temp, precipitation,
                    weather_data, unique_dates, hour, day_of_week, area_type,
                    base_result >>

\* `return pd.DataFrame(events_data)`
EventsReturn ==
    /\ pc = "events_loop"
    /\ di > Len(unique_dates)
    /\ pc' = "events_returned"
    /\ UNCHANGED << num_stations, start_date, end_date, station_locations, err, ti, si,
                    processed, total_records, weather_factor, seasonal_factor,
                    event_factor, factor_calls, trips, temp, precipitation,
                    weather_data, unique_dates, di, events_data, hour, day_of_week,
                    area_type, base_result >>

----------------------------------------------------------------------------
(* A call of _calculate_base_demand on its own *)

CallCalculateBaseDemand ==
    /\ pc = "base_call"
    /\ base_result' = CalculateBaseDemand(hour, day_of_week, area_type)
    /\ pc' = "base_returned"
    /\ UNCHANGED << num_stations, start_date, end_date, station_locations, err, ti, si,
                    processed, total_records, weather_factor, seasonal_factor,
                    event_factor, factor_calls, trips, temp, precipitation,
                    weather_data, unique_dates, di, events_data, hour, day_of_week,
                    area_type >>

----------------------------------------------------------------------------
(* Inputs *)

\* start_date: '2024-01-08' (a Monday), '2024-07-06 23:00' (a Saturday night in the monsoon),
\* '2024-10-02' (a holiday)
StartChoices == { Timestamp(1, 8, 0), Timestamp(7, 6, 23), Timestamp(10, 2, 0) }

\* end_date for a start_date: from one hour before it to MaxSpan hours after it
EndChoices(start) == { start + d : d \in -1..MaxSpan }

\* the anchors the registries of the trip-table runs are built from, one per archetype
AnchorSample == {1, 2, 5, 7, 8}

\* the registries the constructor can build for n stations from the anchors given
Registries(n, anchors) ==
    { [i \in 1..n |-> Station(i - 1, major_areas[f[i]])] : f \in [1..n -> anchors] }

\* the fields of a generator object outside any call
Idle ==
    /\ err = "none"
    /\ ti = 1 /\ si = 1 /\ di = 1
    /\ processed = 0 /\ total_records = 0
    /\ weather_factor = 0 /\ seasonal_factor = 0 /\ event_factor = 0
    /\ factor_calls = 0
    /\ temp = 0 /\ precipitation = 0
    /\ weather_data = << >> /\ unique_dates = << >> /\ events_data = << >>

\* no call of _calculate_base_demand on its own
NoBaseCall == hour = 0 /\ day_of_week = 0 /\ area_type = "residential" /\ base_result = 0

\* a generator constructed with the inputs of the bounds
Init ==
    /\ num_stations \in 0..MaxStations
    /\ start_date \in StartChoices
    /\ end_date \in EndChoices(start_date)
    /\ num_stations * Len(DateRange(start_date, end_date)) <= MaxRows
    /\ station_locations \in Registries(num_stations, AnchorSample)
    /\ pc = "constructed"
    /\ trips = << >>
    /\ Idle
    /\ NoBaseCall

Next ==
    \/ CallGenerateTripData
    \/ TripsTimestamp
    \/ TripsStation
    \/ TripsReturn

Spec == Init /\ [][Next]_vars

----------------------------------------------------------------------------
(* The constructor on its own: SpecStations *)

InitStations ==
    /\ num_stations \in 0..MaxStations
    /\ start_date = Timestamp(1, 1, 0)
    /\ end_date = Timestamp(12, 31, 0)
    /\ station_locations = << >>
    /\ pc = "init"
    /\ trips = << >>
    /\ Idle
    /\ NoBaseCall

NextStations ==
    \/ GenerateStation
    \/ ConstructorReturn

SpecStations == InitStations /\ [][NextStations]_vars

----------------------------------------------------------------------------
(* The side tables, from a trip table generate_trip_data has returned:     *)
(* SpecWeather, SpecEvents                                                 *)

\* the table generate_trip_data returns when every rain draw is rain, every event
\* factor ef and every Poisson sample is sample
TripTable(stations, start, end, rain, ef, sample) ==
    LET n == Len(stations)
        range == DateRange(start, end)
    IN [j \in 1..(n * Len(range)) |->
          LET t == range[((j - 1) \div n) + 1]
          IN TripRow(t, stations[((j - 1) % n) + 1], sample,
                     GetWeatherFactor(t, rain), GetSeasonalFactor(t), ef)]

\* the anchors of the registries of these tables
TableAnchors == {2, 7}

InitTable ==
    /\ num_stations \in 0..MaxStations
    /\ start_date \in StartChoices
    /\ end_date \in EndChoices(start_date)
    /\ num_stations * Len(DateRange(start_date, end_date)) <= MaxRows
    /\ station_locations \in Registries(num_stations, TableAnchors)
    /\ pc = "trips_returned"
    /\ \E sample \in PoissonDraws :
         trips = TripTable(station_locations, start_date, end_date, FALSE, 10, sample)
    /\ Idle
    /\ NoBaseCall

NextWeather ==
    \/ CallGenerateWeatherData
    \/ WeatherRow
    \/ WeatherReturn

SpecWeather == InitTable /\ [][NextWeather]_vars

NextEvents ==
    \/ CallGenerateEventsData
    \/ EventsDate
    \/ EventsReturn

SpecEvents == InitTable /\ [][NextEvents]_vars

----------------------------------------------------------------------------
(* _calculate_base_demand on every hour, day of the week and archetype: SpecBase *)

InitBase ==
    /\ num_stations = 0
    /\ start_date = Timestamp(1, 1, 0)
    /\ end_date = Timestamp(12, 31, 0)
    /\ station_locations = << >>
    /\ pc = "base_call"
    /\ trips = << >>
    /\ Idle
    /\ hour \in 0..23
    /\ day_of_week \in 0..6
    /\ area_type \in DOMAIN base_patterns
    /\ base_result = 0

NextBase == CallCalculateBaseDemand

SpecBase == InitBase /\ [][NextBase]_vars

----------------------------------------------------------------------------
(* Properties *)

\* the number of hourly timestamps from start_date to end_date, both included
Hours == IF start_date <= end_date THEN end_date - start_date + 1 ELSE 0

\* no two rows of the table have the same (timestamp, station_id)
DistinctKeys(rows) ==
    \A i, j \in 1..Len(rows) :
       (rows[i].timestamp = rows[j].timestamp /\ rows[i].station_id = rows[j].station_id)
          => i = j

\* C1: every row of the trip table, at every point of generate_trip_data and whatever
\* the rain, event and Poisson draws were, has an integer trip_count >= 0.
C1_TripCountNonNegative ==
    \A j \in 1..Len(trips) : trips[j].trip_count \in Nat

\* C1 witness: a returned row of the smallest expected demand of the model (residential
\* station, Saturday 23:00 in July, rain drawn, no event) with the Poisson sample 0.
C1_Witness ==
    /\ pc = "trips_returned"
    /\ \E j \in 1..Len(trips) :
         /\ trips[j].area_type = "residential"
         /\ trips[j].hour = 23
         /\ trips[j].weather_factor = 280
         /\ trips[j].event_factor = 10
         /\ trips[j].trip_count = 0

\* C2: for start_date <= end_date the table returned has one row per (hourly timestamp
\* of [start_date, end_date], station): Hours * stations rows, row j carrying timestamp
\* number (j-1) div n and station number (j-1) mod n of the registry (timestamp-major,
\* station-minor), and no (timestamp, station_id) twice; with at least one station the
\* call raises nothing on the way.
C2_OneRowPerTimestampAndStation ==
    /\ (start_date <= end_date /\ num_stations > 0) => (err = "none" /\ pc # "raised")
    /\ (pc = "trips_returned" /\ start_date <= end_date) =>
        LET n == Len(station_locations)
        IN /\ Len(trips) = Hours * n
           /\ \A j \in 1..Len(trips) :
                 /\ trips[j].timestamp = start_date + ((j - 1) \div n)
                 /\ trips[j].timestamp <= end_date
                 /\ trips[j].station_id = station_locations[((j - 1) % n) + 1].station_id
           /\ \A t \in start_date..end_date, k \in 1..n :
                 \E j \in 1..Len(trips) :
                    /\ trips[j].timestamp = t
                    /\ trips[j].station_id = station_locations[k].station_id
           /\ DistinctKeys(trips)

\* C2 witness: a table returned for two timestamps and two stations.
C2_Witness ==
    /\ pc = "trips_returned"
    /\ end_date = start_date + 1
    /\ num_stations = 2
    /\ Len(trips) = 4

\* C3: a range of one day (start_date and end_date the same date) with num_stations = 3
\* yields 72 rows with distinct (timestamp, station_id), covering the hours 0..23 of
\* that day for each of the 3 stations.
C3_OneDayYields72Rows ==
    (/\ pc = "trips_returned"
     /\ num_stations = 3
     /\ start_date = end_date
     /\ HourOf(start_date) = 0) =>
        /\ Len(trips) = 72
        /\ DistinctKeys(trips)
        /\ \A h \in 0..23, k \in 1..3 :
              \E j \in 1..Len(trips) :
                 /\ trips[j].hour = h
                 /\ DateOf(trips[j].timestamp) = DateOf(start_date)
                 /\ trips[j].station_id = station_locations[k].station_id

\* C4: with end_date before start_date and num_stations > 0, generate_trip_data never
\* raises, never appends a row, and returns the empty table.
C4_InvertedRangeIsEmpty ==
    (end_date < start_date /\ num_stations > 0) =>
        /\ err = "none"
        /\ pc # "raised"
        /\ pc # "trips_station"
        /\ trips = << >>

\* C4 witness: generate_trip_data has returned for an inverted range and 3 stations.
C4_Witness ==
    /\ pc = "trips_returned"
    /\ end_date < start_date
    /\ num_stations = 3

\* C7 as claimed: the weather and event factors are drawn once per row, so a returned
\* table has as many factor draws behind it as it has rows.
C7_FactorsDrawnPerRow ==
    pc = "trips_returned" => factor_calls = Len(trips)

\* C7 as amended: the weather, seasonal and event factors are all evaluated once per
\* timestamp, before the station loop: rows of the same timestamp carry the same
\* weather_factor, seasonal_factor and event_factor, and a returned table has one factor
\* draw per timestamp behind it.
C7_FactorsSharedPerTimestamp ==
    /\ \A i, j \in 1..Len(trips) :
          trips[i].timestamp = trips[j].timestamp =>
             /\ trips[i].weather_factor = trips[j].weather_factor
             /\ trips[i].seasonal_factor = trips[j].seasonal_factor
             /\ trips[i].event_factor = trips[j].event_factor
    /\ (pc = "trips_returned" /\ num_stations > 0) => factor_calls = Hours

\* C7 witness: two returned rows of one timestamp and different stations, with rain and
\* an event drawn for that timestamp.
C7_Witness ==
    /\ pc = "trips_returned"
    /\ \E i, j \in 1..Len(trips) :
         /\ trips[i].timestamp = trips[j].timestamp
         /\ trips[i].station_id # trips[j].station_id
         /\ trips[i].weather_factor = 280
         /\ trips[i].event_factor = 18

\* C10: with num_stations = 0 and start_date <= end_date, generate_trip_data raises no
\* error (and so returns the empty table).
C10_EmptyRegistryNoError ==
    (num_stations = 0 /\ start_date <= end_date) => (err = "none" /\ pc # "raised")

\* C8: the registry holds the stations 0..count-1 in order (station_id = position), has
\* exactly num_stations of them once the constructor returns (none for count = 0), and
\* every area_type is a key of base_patterns.
C8_RegistryWellFormed ==
    /\ Len(station_locations) <= num_stations
    /\ pc = "constructed" => Len(station_locations) = num_stations
    /\ \A i \in 1..Len(station_locations) :
          /\ station_locations[i].station_id = i - 1
          /\ station_locations[i].area_type \in DOMAIN base_patterns
    /\ \A i, j \in 1..Len(station_locations) :
          station_locations[i].station_id = station_locations[j].station_id => i = j

\* C8 witness: a constructed registry of 3 stations, two of them at the same anchor.
C8_Witness ==
    /\ pc = "constructed"
    /\ num_stations = 3
    /\ Len(station_locations) = 3
    /\ station_locations[1].base_area = station_locations[3].base_area
    /\ station_locations[2].area_type = "transport_hub"

\* the condition the thresholds give for a temperature and a precipitation, in 1/100
ThresholdCondition(t, p) ==
    CASE p > 500 -> "rainy"
      [] p <= 500 /\ t > 3500 -> "hot"
      [] p <= 500 /\ t <= 3500 /\ t < 1500 -> "cold"
      [] OTHER -> "pleasant"

\* C9 as claimed: in every weather row, weather_condition is the condition the
\* thresholds give for the temperature and precipitation recorded in that row.
C9_ConditionAgreesWithRecorded ==
    \A k \in 1..Len(weather_data) :
       weather_data[k].weather_condition =
           ThresholdCondition(weather_data[k].temperature, weather_data[k].precipitation)

\* C9 as amended: weather_condition is the condition the thresholds give for the
\* sampled, unrounded temperature and precipitation; the row records these rounded to
\* one decimal, so against the recorded values the thresholds hold up to rounding only
\* (a row recording 5.0 mm, 35.0 or 15.0 degrees can carry either label).
C9_ConditionAgreesWithSampled ==
    /\ (pc = "weather_loop" /\ weather_data # << >>) =>
          LET row == weather_data[Len(weather_data)]
          IN /\ row.weather_condition = ThresholdCondition(temp, precipitation)
             /\ row.temperature = Round1(temp)
             /\ row.precipitation = Round1(precipitation)
    /\ \A k \in 1..Len(weather_data) :
          LET row == weather_data[k]
          IN /\ row.precipitation > 500 => row.weather_condition = "rainy"
             /\ row.weather_condition = "rainy" => row.precipitation >= 500
             /\ (row.precipitation < 500 /\ row.temperature > 3500)
                   => row.weather_condition = "hot"
             /\ row.weather_condition = "hot"
                   => (row.precipitation <= 500 /\ row.temperature >= 3500)
             /\ (row.precipitation < 500 /\ row.temperature < 1500)
                   => row.weather_condition = "cold"
             /\ row.weather_condition = "cold"
                   => (row.precipitation <= 500 /\ row.temperature <= 1500)

\* C9 witness: a returned weather table with a rainy row recording 5.0 mm and a cold
\* or hot row recording exactly the threshold temperature.
C9_Witness ==
    /\ pc = "weather_returned"
    /\ \E k \in 1..Len(weather_data) :
         /\ weather_data[k].weather_condition = "rainy"
         /\ weather_data[k].precipitation = 500
    /\ \E k \in 1..Len(weather_data) :
         /\ weather_data[k].weather_condition = "hot"
         /\ weather_data[k].temperature = 3500

\* C6: the events table never has two rows of the same date, and every event date is
\* the date of a row of the trip table.
C6_OneEventPerDate ==
    /\ \A i, j \in 1..Len(events_data) :
          events_data[i].date = events_data[j].date => i = j
    /\ \A i \in 1..Len(events_data) :
          \E k \in 1..Len(trips) : DateOf(trips[k].timestamp) = events_data[i].date

\* C6 witness: events returned for both dates of a trip table of 4 rows over 2 dates.
C6_Witness ==
    /\ pc = "events_returned"
    /\ Len(trips) = 4
    /\ Len(events_data) = 2
    /\ DateOf(trips[1].timestamp) # DateOf(trips[4].timestamp)

\* C5: _calculate_base_demand returns base_demand * m * w (in 1/100): m is 1.5 at a peak
\* hour, else 1.2 one hour before or after a peak hour (also outside 6..22), else 1.0
\* for 6 <= hour <= 22, else 0.3; w is 0.6 for business_district and educational at the
\* weekend, 1.3 for tourist at the weekend, and 1 otherwise.
C5_BaseDemandFormula ==
    pc = "base_returned" =>
        LET peaks == base_patterns[area_type].peak_hours
            m == CASE hour \in peaks -> 15
                   [] hour \notin peaks /\ (\E q \in peaks : hour = q + 1 \/ hour = q - 1) -> 12
                   [] /\ hour \notin peaks
                      /\ ~(\E q \in peaks : hour = q + 1 \/ hour = q - 1)
                      /\ hour >= 6 /\ hour <= 22 -> 10
                   [] OTHER -> 3
            w == CASE day_of_week >= 5 /\ area_type \in {"business_district", "educational"} -> 6
                   [] day_of_week >= 5 /\ area_type = "tourist" -> 13
                   [] OTHER -> 10
        IN base_result = base_patterns[area_type].base_demand * m * w

\* C5 witness: hour 5 at a transport hub, next to its peak hour 6 and outside 6..22,
\* has returned 30 * 1.2.
C5_Witness ==
    /\ pc = "base_returned"
    /\ hour = 5
    /\ area_type = "transport_hub"
    /\ day_of_week = 6
    /\ base_result = 3600

\* the table TripTable gives is the one the calls of generate_trip_data build when their
\* draws are the ones TripTable is given
TripTableAgrees ==
    (/\ pc = "trips_returned"
     /\ \A j \in 1..Len(trips) :
           /\ trips[j].event_factor = 10
           /\ trips[j].trip_count = 1
           /\ trips[j].weather_factor = GetWeatherFactor(trips[j].timestamp, FALSE))
        => trips = TripTable(station_locations, start_date, end_date, FALSE, 10, 1)

====
